---- MODULE Spec2Model ----
(***************************************************************************)
(* Model of the robotics_containerization launcher scripts:                *)
(*   generate_config.py  (environment resolution and the .env writer)      *)
(*   build.py / run.py / push.py  (entry points and command assembly)      *)
(*                                                                         *)
(* Representation of Python values.                                        *)
(*  - An architecture token is a sequence of one-character strings, so     *)
(*    that str.strip, str.lower and str.startswith are computed.           *)
(*  - A template (base image, dockerfile, image and container name) is a   *)
(*    sequence of text pieces; a placeholder such as "TAG" is one piece,   *)
(*    and str.replace(old, new) replaces every piece equal to old.         *)
(*  - A dict is a sequence of <<key, value>> pairs with distinct keys, in  *)
(*    insertion order.                                                     *)
(*  - Python's None is the value None.                                     *)
(***************************************************************************)
EXTENDS Integers, Sequences, FiniteSets, TLC

VARIABLES
    pc,          \* position of the invocation in its entry point
    cmd,         \* entry point: "generate", "build", "run", "push"
    config,      \* the loaded env.yaml document
    target_arch, \* the TARGET_ARCH argument (None when push gets none)
    fs,          \* filesystem state the resolver probes
    machine,     \* platform.machine() of the host
    osenv,       \* ambient process environment (os.environ) of push
    env_vars,    \* value returned by generate_config
    envfile,     \* content of config/.env
    edited,      \* TRUE once another writer has changed config/.env
    env,         \* mapping parsed from config/.env by the entry point
    docker,      \* docker processes spawned so far, in order
    status,      \* exit status of the invocation: <<>> until it ends, then <<code>>
    uncaught,    \* name of the exception the invocation died of, or None
    message,     \* last diagnostic printed: what it says and what it names
    assembled,   \* the argument list the build or the run assembler made last
    tok,         \* SpecArch: architecture token under normalization
    src_tok,     \* SpecArch: source architecture token
    arch_out,    \* SpecArch: results of the normalizers and selectors
    rt_env,      \* SpecFile: the mapping given to write_env_config
    rt_text,     \* SpecFile: the characters of the file written
    rt_read,     \* SpecFile: what each parser read back from the file
    shared_file, \* SpecRace: the characters of the file two invocations write
    writer,      \* SpecRace: each writer's output, file position and buffer
    finished,    \* SpecRace: the writers that closed the file, in order
    vol_cfg,     \* SpecVol: the config whose volumes are handed to run
    vol_out      \* SpecVol: the hand-off so far, from the environment to the mounts

vars == <<pc, cmd, config, target_arch, fs, machine, osenv, env_vars, envfile,
          edited, env, docker, status, uncaught, message, assembled, tok, src_tok,
          arch_out, rt_env, rt_text, rt_read, shared_file, writer, finished,
          vol_cfg, vol_out>>

\* Python's None where a string is expected
None == "<None>"

(***************************************************************************)
(* Bounds                                                                  *)
(***************************************************************************)
\* largest number of whitespace characters put before and after a token
MaxPad == 1
\* largest number of extra volumes a configuration declares
MaxVolumes == 1

(***************************************************************************)
(* Strings as sequences of characters                                      *)
(***************************************************************************)
UpperChars == <<"A","B","C","D","E","F","G","H","I","J","K","L","M",
                "N","O","P","Q","R","S","T","U","V","W","X","Y","Z">>
LowerChars == <<"a","b","c","d","e","f","g","h","i","j","k","l","m",
                "n","o","p","q","r","s","t","u","v","w","x","y","z">>

LowerChar(c) ==
    IF \E i \in 1..Len(UpperChars) : UpperChars[i] = c
    THEN LowerChars[CHOOSE i \in 1..Len(UpperChars) : UpperChars[i] = c]
    ELSE c

UpperChar(c) ==
    IF \E i \in 1..Len(LowerChars) : LowerChars[i] = c
    THEN UpperChars[CHOOSE i \in 1..Len(LowerChars) : LowerChars[i] = c]
    ELSE c

\* str.lower()
str_lower(s) == [i \in 1..Len(s) |-> LowerChar(s[i])]

\* str.upper(), used only to build input tokens
str_upper(s) == [i \in 1..Len(s) |-> UpperChar(s[i])]

IsSpace(c) == c \in {" ", "\t", "\n"}

RECURSIVE lstrip(_)
lstrip(s) == IF s # <<>> /\ IsSpace(Head(s)) THEN lstrip(Tail(s)) ELSE s

RECURSIVE rstrip(_)
rstrip(s) ==
    IF s # <<>> /\ IsSpace(s[Len(s)]) THEN rstrip(SubSeq(s, 1, Len(s) - 1)) ELSE s

\* str.strip()
str_strip(s) == rstrip(lstrip(s))

\* str.startswith(prefix)
str_startswith(s, prefix) ==
    /\ Len(prefix) <= Len(s)
    /\ SubSeq(s, 1, Len(prefix)) = prefix

(***************************************************************************)
(* Architecture tokens                                                     *)
(***************************************************************************)
s_develop == <<"d","e","v","e","l","o","p">>
s_deploy  == <<"d","e","p","l","o","y">>
s_x86_64  == <<"x","8","6","_","6","4">>
s_arm     == <<"a","r","m">>
s_aarch64 == <<"a","a","r","c","h","6","4">>
s_arm64   == <<"a","r","m","6","4">>
s_armv7   == <<"a","r","m","v","7">>
s_armv7l  == <<"a","r","m","v","7","l">>
s_armv7hf == <<"a","r","m","v","7","h","f">>
s_armv8   == <<"a","r","m","v","8">>
s_riscv64 == <<"r","i","s","c","v","6","4">>
s_empty   == <<>>

\* docker --platform arguments
AMD64_FLAG == "--platform=linux/amd64"
ARM64_FLAG == "--platform=linux/arm64"
ARMV7_FLAG == "--platform=linux/arm/v7"

\* build.py normalize_arch
build_normalize_arch(a) ==
    LET s == str_lower(str_strip(a)) IN
    IF s \in {s_arm64} THEN s_aarch64
    ELSE IF str_startswith(s, s_armv7) \/ s = s_armv7l THEN s_armv7
    ELSE s

\* build.py choose_platform_option
build_choose_platform_option(target, source) ==
    LET targ == build_normalize_arch(target)
        src  == build_normalize_arch(source) IN
    IF targ \in {s_develop, s_x86_64} THEN AMD64_FLAG
    ELSE IF targ \in {s_deploy, s_arm, s_aarch64} THEN ARM64_FLAG
    ELSE IF targ = s_armv7 THEN ARMV7_FLAG
    ELSE None

\* run.py normalize_arch
run_normalize_arch(a) ==
    IF a = <<>> THEN <<>>
    ELSE LET s == str_lower(str_strip(a)) IN
         IF s \in {s_arm64} THEN s_aarch64
         ELSE IF s \in {s_arm, s_armv7l} \/ str_startswith(s, s_armv7) THEN s_arm
         ELSE s

\* run.py choose_platform_option
run_choose_platform_option(target, source) ==
    LET targ == run_normalize_arch(target)
        src  == run_normalize_arch(source) IN
    IF targ \in {s_develop, s_x86_64} THEN AMD64_FLAG
    ELSE IF targ \in {s_deploy, s_arm, s_aarch64} THEN ARM64_FLAG
    ELSE IF targ = s_armv7 THEN ARMV7_FLAG
    ELSE None

(***************************************************************************)
(* Text values, dicts and templates                                        *)
(***************************************************************************)
\* a text made of one piece
T(x) == <<x>>

\* architecture token of push.py when sys.argv holds no TARGET_ARCH (None)
NoneArch == <<"None">>

\* dict: key in d
DictHas(d, k) == \E i \in 1..Len(d) : d[i][1] = k

\* dict: d[k]
DictGet(d, k) == d[CHOOSE i \in 1..Len(d) : d[i][1] = k][2]

\* dict: d[k] = v  (an existing key keeps its position)
DictSet(d, k, v) ==
    IF DictHas(d, k)
    THEN [i \in 1..Len(d) |-> IF d[i][1] = k THEN <<k, v>> ELSE d[i]]
    ELSE Append(d, <<k, v>>)

\* dict union  a | b
RECURSIVE dict_or(_, _)
dict_or(a, b) ==
    IF b = <<>> THEN a ELSE dict_or(DictSet(a, b[1][1], b[1][2]), Tail(b))

\* str.replace(old, new): every piece equal to old becomes the text new
RECURSIVE str_replace(_, _, _)
str_replace(s, old, new) ==
    IF s = <<>> THEN <<>>
    ELSE (IF Head(s) = old THEN new ELSE <<Head(s)>>) \o str_replace(Tail(s), old, new)

\* the placeholder tokens of the templates
Placeholders == {"REPO_AUTHOR", "PROJECT_REPO", "ROS2_DISTRO", "MIDDLEWARE", "TAG"}

\* shlex.quote: a path with a character outside the safe set is wrapped in
\* single quotes
UnsafePaths == {"/mnt/my data"}
shlex_quote(it) == IF it \in UnsafePaths THEN <<"'", it, "'">> ELSE <<it>>

RECURSIVE join_quoted(_)
join_quoted(items) ==
    IF items = <<>> THEN <<>>
    ELSE IF Len(items) = 1 THEN shlex_quote(items[1])
    ELSE shlex_quote(items[1]) \o <<" ">> \o join_quoted(Tail(items))

\* generate_config.py bash_array_assignment
bash_array_assignment(items) == <<"(">> \o join_quoted(items) \o <<")">>

(***************************************************************************)
(* generate_config.py generate_config                                      *)
(***************************************************************************)
\* a result of generate_config: what it returns (ret), the diagnostic it
\* printed and the value that names, and the source line it left at
ReturnNone(line, msg, value) ==
    [ret |-> "None", env |-> <<>>, printed |-> msg, named |-> value, at |-> line]

Raise(line, exc, key) ==
    [ret |-> "raise", env |-> <<>>, printed |-> exc, named |-> T(key), at |-> line]

ReturnEnv(e) ==
    [ret |-> "env", env |-> e, printed |-> None, named |-> <<>>, at |-> 158]

\* The middleware branch, lines 98-130, yields pick = "ok" with the chosen
\* base image, stage, tag and architecture, "arch" (unsupported architecture),
\* "middleware" (unknown middleware) or "KeyError" (no such base image), and
\* the line of the branch taken.

\* the ros2 branch with aarch64 listed among the x86 targets
BranchRos2Mutant(cfg, targ) ==
    LET images == cfg.docker_base_images IN
    IF targ \in {s_develop, s_x86_64, s_aarch64} THEN
        [pick |-> "ok", line |-> 100, base_image |-> DictGet(images, "x86_full_image"),
         build_stage |-> T("develop-stage"), tag |-> T("develop"), arch |-> s_x86_64]
    ELSE IF targ \in {s_deploy, s_arm} THEN
        [pick |-> "ok", line |-> 105, base_image |-> DictGet(images, "arm_base_image"),
         build_stage |-> T("deploy-stage"), tag |-> T("deploy"), arch |-> s_arm]
    ELSE [pick |-> "arch", line |-> 112]

\* the micro-ros branch accepting x86_64 like develop
BranchMicroRosMutant(cfg, targ) ==
    LET images == cfg.docker_base_images IN
    IF targ \in {s_develop, s_x86_64} THEN
        [pick |-> "ok", line |-> 116, base_image |-> DictGet(images, "microros_base_image"),
         build_stage |-> T("develop-stage"), tag |-> T("develop"), arch |-> s_x86_64]
    ELSE IF targ \in {s_deploy} THEN
        [pick |-> "ok", line |-> 120, base_image |-> DictGet(images, "microros_base_image"),
         build_stage |-> T("deploy-stage"), tag |-> T("deploy"), arch |-> s_arm]
    ELSE [pick |-> "arch", line |-> 126]

\* the ros2 branch persisting the requested target as TARGET_ARCH
BranchRos2TargetMutant(cfg, targ) ==
    LET images == cfg.docker_base_images IN
    IF targ \in {s_develop, s_x86_64} THEN
        [pick |-> "ok", line |-> 100, base_image |-> DictGet(images, "x86_full_image"),
         build_stage |-> T("develop-stage"), tag |-> T("develop"), arch |-> targ]
    ELSE IF targ \in {s_deploy, s_arm, s_aarch64} THEN
        [pick |-> "ok", line |-> 105, base_image |-> DictGet(images, "arm_base_image"),
         build_stage |-> T("deploy-stage"), tag |-> T("deploy"), arch |-> targ]
    ELSE [pick |-> "arch", line |-> 112]

\* lines 99-112
BranchRos2(cfg, targ) ==
    LET images == cfg.docker_base_images IN
    IF targ \in {s_develop, s_x86_64} THEN
        IF ~DictHas(images, "x86_full_image")
        THEN [pick |-> "KeyError", line |-> 101, key |-> "x86_full_image"]
        ELSE [pick |-> "ok", line |-> 100,
              base_image |-> DictGet(images, "x86_full_image"),
              build_stage |-> T("develop-stage"), tag |-> T("develop"),
              arch |-> s_x86_64]
    ELSE IF targ \in {s_deploy, s_arm, s_aarch64} THEN
        IF ~DictHas(images, "arm_base_image")
        THEN [pick |-> "KeyError", line |-> 106, key |-> "arm_base_image"]
        ELSE [pick |-> "ok", line |-> 105,
              base_image |-> DictGet(images, "arm_base_image"),
              build_stage |-> T("deploy-stage"), tag |-> T("deploy"),
              arch |-> s_arm]
    ELSE [pick |-> "arch", line |-> 112]

\* lines 114-126
BranchMicroRos(cfg, targ) ==
    LET images == cfg.docker_base_images IN
    IF ~DictHas(images, "microros_base_image")
    THEN [pick |-> "KeyError", line |-> 115, key |-> "microros_base_image"]
    ELSE IF targ \in {s_develop} THEN
        [pick |-> "ok", line |-> 116,
         base_image |-> DictGet(images, "microros_base_image"),
         build_stage |-> T("develop-stage"), tag |-> T("develop"), arch |-> s_x86_64]
    ELSE IF targ \in {s_deploy} THEN
        [pick |-> "ok", line |-> 120,
         base_image |-> DictGet(images, "microros_base_image"),
         build_stage |-> T("deploy-stage"), tag |-> T("deploy"), arch |-> s_arm]
    ELSE [pick |-> "arch", line |-> 126]

\* the middleware branch comparing against "microros"
MiddlewareBranchMutant(cfg, targ) ==
    IF cfg.middleware = "ros2" THEN BranchRos2(cfg, targ)
    ELSE IF cfg.middleware = "microros" THEN BranchMicroRos(cfg, targ)
    ELSE [pick |-> "middleware", line |-> 130]

\* lines 98-130
MiddlewareBranch(cfg, targ) ==
    IF cfg.middleware = "ros2" THEN BranchRos2(cfg, targ)
    ELSE IF cfg.middleware = "micro-ros" THEN BranchMicroRos(cfg, targ)
    ELSE [pick |-> "middleware", line |-> 130]

\* lines 76-79: the first declared volume that is no directory, or 0
FirstMissingVolume(volumes, dirs) ==
    IF \E i \in 1..Len(volumes) : volumes[i] \notin dirs
    THEN CHOOSE i \in 1..Len(volumes) :
            /\ volumes[i] \notin dirs
            /\ \A j \in 1..(i - 1) : volumes[j] \in dirs
    ELSE 0

\* lines 70-73
repo_env(cfg) ==
    << <<"REPO_AUTHOR", T(cfg.repo_author)>>,
       <<"PROJECT_REPO", T(cfg.project_repo)>> >>

\* lines 64-68, 80-83
volumes_env(cfg) ==
    << <<"LOCAL_WS_PATH", <<"ROOT_DIR/", cfg.project_repo>> >>,
       <<"VOLUMES", bash_array_assignment(cfg.volumes)>> >>

\* lines 86-96
container_env(cfg) ==
    LET container_home == <<"/home/", cfg.container_env.container_usr>>
        container_ws   == container_home \o <<"/", cfg.project_repo>> IN
    << <<"CONTAINER_USR", T(cfg.container_env.container_usr)>>,
       <<"CONTAINER_PSW", T(cfg.container_env.container_psw)>>,
       <<"CONTAINER_UID", T(cfg.container_env.container_uid)>>,
       <<"CONTAINER_GID", T(cfg.container_env.container_gid)>>,
       <<"CONTAINER_HOME", container_home>>,
       <<"CONTAINER_WS", container_ws>>,
       <<"CONTAINER_RUN_CMD", T(cfg.container_run_cmd)>> >>

\* the build mapping without the architecture of the host
BaseImageEnvMutant(cfg, b, mach) ==
    << <<"BASE_IMAGE", str_replace(b.base_image, "ROS2_DISTRO", T(cfg.ros2_distro))>>,
       <<"BUILD_STAGE", b.build_stage>>,
       <<"TARGET_ARCH", b.arch>> >>

\* lines 132-137
base_image_env(cfg, b, mach) ==
    << <<"BASE_IMAGE", str_replace(b.base_image, "ROS2_DISTRO", T(cfg.ros2_distro))>>,
       <<"BUILD_STAGE", b.build_stage>>,
       <<"TARGET_ARCH", b.arch>>,
       <<"SOURCE_ARCH", mach>> >>

\* line 140
dockerfile_name(cfg) ==
    str_replace(cfg.docker_file_image_container.dockerfile,
                "MIDDLEWARE", T(cfg.middleware))

\* line 145
docker_image_name(cfg) ==
    str_replace(
        str_replace(
            str_replace(cfg.docker_file_image_container.docker_image,
                        "REPO_AUTHOR", T(cfg.repo_author)),
            "PROJECT_REPO", T(cfg.project_repo)),
        "ROS2_DISTRO", T(cfg.ros2_distro))

\* line 146
docker_container_name(cfg, tag) ==
    str_replace(
        str_replace(cfg.docker_file_image_container.docker_container,
                    "PROJECT_REPO", T(cfg.project_repo)),
        "TAG", tag)

\* the image mapping storing the tag under the key of the build stage
ImageEnvMutant(cfg, b) ==
    << <<"DOCKERFILE", dockerfile_name(cfg)>>,
       <<"DOCKER_IMAGE", docker_image_name(cfg)>>,
       <<"DOCKER_CONTAINER", docker_container_name(cfg, b.tag)>>,
       <<"BUILD_STAGE", b.tag>> >>

\* lines 148-153
image_env(cfg, b) ==
    << <<"DOCKERFILE", dockerfile_name(cfg)>>,
       <<"DOCKER_IMAGE", docker_image_name(cfg)>>,
       <<"DOCKER_CONTAINER", docker_container_name(cfg, b.tag)>>,
       <<"DOCKER_IMAGE_TAG", b.tag>> >>

\* lines 36-158
generate_config(cfg, targ, files, mach) ==
    LET b == MiddlewareBranch(cfg, targ)
        v == FirstMissingVolume(cfg.volumes, files.dirs) IN
    IF ~cfg.has_target_platorm THEN Raise(43, "KeyError", "target_platorm")
    ELSE IF targ \notin cfg.supported.architectures
        THEN ReturnNone(51, "Unsupported architecture", targ)
    ELSE IF cfg.middleware \notin cfg.supported.middlewares
        THEN ReturnNone(56, "Unsupported middleware", T(cfg.middleware))
    ELSE IF cfg.ros2_distro \notin cfg.supported.ros2_distros
        THEN ReturnNone(61, "Unsupported ROS2 distribution", T(cfg.ros2_distro))
    ELSE IF ~files.project_dir
        THEN ReturnNone(67, "Directory does not exist", <<"ROOT_DIR/", cfg.project_repo>>)
    ELSE IF v # 0
        THEN ReturnNone(79, "Directory does not exist", T(cfg.volumes[v]))
    ELSE IF b.pick = "KeyError" THEN Raise(b.line, "KeyError", b.key)
    ELSE IF b.pick = "arch" THEN ReturnNone(b.line, "Unsupported architecture", targ)
    ELSE IF b.pick = "middleware"
        THEN ReturnNone(b.line, "Unsupported middleware", T(cfg.middleware))
    ELSE IF dockerfile_name(cfg) \notin files.dockerfiles
        THEN ReturnNone(143, "Dockerfile does not exist", dockerfile_name(cfg))
    ELSE ReturnEnv(
            dict_or(dict_or(dict_or(dict_or(repo_env(cfg), volumes_env(cfg)),
                                    container_env(cfg)),
                            base_image_env(cfg, b, mach)),
                    image_env(cfg, b)))

(***************************************************************************)
(* The persisted environment file config/.env                              *)
(*                                                                         *)
(* A file is [exists, lines]; a line is <<key, value>> for the text        *)
(* "key=value" and <<text>> for a line without "=" (blank, comment).       *)
(***************************************************************************)
NoFile == [exists |-> FALSE, lines |-> <<>>]

\* generate_config.py write_env_config
write_env_config(e) ==
    [exists |-> TRUE, lines |-> [i \in 1..Len(e) |-> <<e[i][1], e[i][2]>>]]

\* build.py / run.py parse_env_file, after the is_file test
RECURSIVE parse_lines(_, _)
parse_lines(lines, acc) ==
    IF lines = <<>> THEN acc
    ELSE IF Len(Head(lines)) # 2 THEN parse_lines(Tail(lines), acc)
    ELSE parse_lines(Tail(lines),
                     DictSet(acc, Head(lines)[1], str_strip(Head(lines)[2])))

parse_env_file(file) == parse_lines(file.lines, <<>>)

\* push.py load_env_file: the pairs are stored into os.environ
load_env_file(environ, file) == parse_lines(file.lines, environ)

(***************************************************************************)
(* Inputs                                                                  *)
(***************************************************************************)
RECURSIVE Spaces(_)
Spaces(n) == IF n = 0 THEN <<>> ELSE <<" ">> \o Spaces(n - 1)

\* a token with l spaces before and r spaces after it
Pad(l, s, r) == Spaces(l) \o s \o Spaces(r)

DeclaredArchs == {s_develop, s_deploy, s_x86_64, s_arm, s_aarch64}

LooseArchs == {s_arm64, s_armv7, str_upper(s_arm), Pad(MaxPad, s_aarch64, 0)}

\* TARGET_ARCH arguments of the entry points
Targets == DeclaredArchs \cup LooseArchs \cup {s_riscv64}

SupportedArchChoices == {DeclaredArchs, DeclaredArchs \cup LooseArchs}

Middlewares == {"ros2", "micro-ros", "zenoh"}

SupportedMiddlewareChoices == {{"ros2", "micro-ros"}, {"ros2", "micro-ros", "zenoh"}}

Distros == {"humble", "foxy"}

SupportedDistroChoices == {{"humble", "jazzy"}}

VolumePaths == {"/data", "/mnt/my data"}

\* Path(vol).name
PathName(p) ==
    IF p \in {"/data", "/mnt/data", "/srv/data"} THEN "data"
    ELSE IF p = "/srv/robot_ws" THEN "robot_ws"
    ELSE "my data"

RECURSIVE SeqsUpTo(_, _)
SeqsUpTo(S, n) ==
    IF n = 0 THEN {<<>>}
    ELSE SeqsUpTo(S, n - 1) \cup
         {Append(q, x) : q \in {r \in SeqsUpTo(S, n - 1) : Len(r) = n - 1}, x \in S}

VolumeLists == SeqsUpTo(VolumePaths, MaxVolumes)

\* templates that use only the placeholders generate_config substitutes
PlainBaseImages ==
    << <<"x86_full_image", <<"osrf/ros:", "ROS2_DISTRO", "-desktop-full">> >>,
       <<"arm_base_image", <<"arm64v8/ros:", "ROS2_DISTRO", "-ros-base">> >>,
       <<"microros_base_image", <<"microros/base:", "ROS2_DISTRO">> >> >>

PlainNames ==
    [dockerfile       |-> <<"Dockerfile.", "MIDDLEWARE">>,
     docker_image     |-> <<"REPO_AUTHOR", "/", "PROJECT_REPO", "-", "ROS2_DISTRO">>,
     docker_container |-> <<"PROJECT_REPO", "-", "TAG">>]

\* templates that use each of the five placeholders
RichBaseImages ==
    << <<"x86_full_image", <<"REPO_AUTHOR", "/ros:", "ROS2_DISTRO", "-", "TAG">> >>,
       <<"arm_base_image", <<"arm64v8/ros:", "ROS2_DISTRO", "-", "MIDDLEWARE">> >>,
       <<"microros_base_image", <<"microros/", "PROJECT_REPO", ":", "ROS2_DISTRO">> >> >>

RichNames ==
    [dockerfile       |-> <<"Dockerfile.", "MIDDLEWARE", ".", "TAG">>,
     docker_image     |-> <<"REPO_AUTHOR", "/", "PROJECT_REPO", "-", "MIDDLEWARE",
                            "-", "ROS2_DISTRO", "-", "TAG">>,
     docker_container |-> <<"REPO_AUTHOR", "-", "PROJECT_REPO", "-", "TAG">>]

TemplateChoices ==
    {[images |-> PlainBaseImages, names |-> PlainNames],
     [images |-> RichBaseImages, names |-> RichNames]}

\* an image-name template that is the empty string
EmptyImageNames == [PlainNames EXCEPT !.docker_image = <<>>]

Config(h, vl, d, m, t, sa, sm, sd) ==
    [has_target_platorm |-> h,
     repo_author |-> "Vince-94",
     project_repo |-> "robot_ws",
     volumes |-> vl,
     container_env |-> [container_usr |-> "user", container_psw |-> "psw",
                        container_uid |-> "1000", container_gid |-> "1001"],
     ros2_distro |-> d,
     middleware |-> m,
     docker_base_images |-> t.images,
     docker_file_image_container |-> t.names,
     container_run_cmd |-> "bash",
     supported |-> [architectures |-> sa, middlewares |-> sm, ros2_distros |-> sd]]

\* the loaded env.yaml documents: every combination of the choices above,
\* and two documents with an empty image-name template
Configs ==
    {Config(h, vl, d, m, t, sa, sm, sd) :
        h \in BOOLEAN, vl \in VolumeLists, d \in Distros, m \in Middlewares,
        t \in TemplateChoices, sa \in SupportedArchChoices,
        sm \in SupportedMiddlewareChoices, sd \in SupportedDistroChoices}
    \cup {Config(TRUE, <<>>, "humble", m,
                 [images |-> PlainBaseImages, names |-> EmptyImageNames],
                 DeclaredArchs, {"ros2", "micro-ros"}, {"humble", "jazzy"}) :
            m \in {"ros2", "micro-ros"}}

\* every dockerfile name a configuration can resolve to
AllDockerfiles ==
    {str_replace(t.names.dockerfile, "MIDDLEWARE", T(m)) :
        t \in TemplateChoices, m \in Middlewares}

\* filesystem states: everything present, or one kind of path absent
FileSystems ==
    {[project_dir |-> TRUE,  dirs |-> VolumePaths, dockerfiles |-> AllDockerfiles],
     [project_dir |-> FALSE, dirs |-> VolumePaths, dockerfiles |-> AllDockerfiles],
     [project_dir |-> TRUE,  dirs |-> {},          dockerfiles |-> AllDockerfiles],
     [project_dir |-> TRUE,  dirs |-> VolumePaths, dockerfiles |-> {}]}

Machines == {s_x86_64, s_aarch64}

\* os.environ of the invoking shell
Environs ==
    {<<>>,
     << <<"DOCKER_IMAGE", T("stale/image")>>, <<"DOCKER_IMAGE_TAG", T("old")>>,
        <<"DISPLAY", T(":0")>> >>}

\* config/.env left by an earlier invocation
OldFile ==
    [exists |-> TRUE,
     lines |-> << <<"# generated earlier">>, <<"DOCKER_IMAGE", T("old/image")>>,
                  <<"DOCKER_IMAGE_TAG", T("develop")>> >>]

EntryPoints == {"generate", "build", "run", "push"}

\* the TARGET_ARCH an entry point can be given: build and run take an
\* optional argument, push passes None when sys.argv has none
TargetArgs(c) ==
    Targets \cup (IF c = "push" THEN {NoneArch} ELSE {})
            \cup (IF c \in {"build", "run"} THEN {<<>>} ELSE {})

(***************************************************************************)
(* Command assembly                                                        *)
(***************************************************************************)
\* build.py lines 140-152
build_required ==
    <<"DOCKERFILE", "DOCKER_IMAGE", "DOCKER_IMAGE_TAG", "BUILD_STAGE", "BASE_IMAGE",
      "CONTAINER_USR", "CONTAINER_PSW", "CONTAINER_UID", "CONTAINER_GID",
      "TARGET_ARCH", "SOURCE_ARCH">>

\* run.py lines 157-164: keys read by subscript before the required test
run_subscripted ==
    <<"DOCKER_IMAGE", "DOCKER_IMAGE_TAG", "CONTAINER_USR", "CONTAINER_UID",
      "CONTAINER_GID", "CONTAINER_RUN_CMD", "CONTAINER_WS", "DOCKER_CONTAINER">>

\* run.py lines 171-175
run_required ==
    <<"DOCKER_IMAGE", "DOCKER_IMAGE_TAG", "DOCKER_CONTAINER", "LOCAL_WS_PATH",
      "CONTAINER_WS", "CONTAINER_HOME", "VOLUMES", "TARGET_ARCH", "SOURCE_ARCH",
      "CONTAINER_UID", "CONTAINER_USR", "CONTAINER_GID", "CONTAINER_RUN_CMD">>

\* index of the first key of keys that e lacks, or 0
FirstMissing(keys, e) ==
    IF \E i \in 1..Len(keys) : ~DictHas(e, keys[i])
    THEN CHOOSE i \in 1..Len(keys) :
            /\ ~DictHas(e, keys[i])
            /\ \A j \in 1..(i - 1) : DictHas(e, keys[j])
    ELSE 0

\* run.py line 176: the keys of keys that e lacks, in order
RECURSIVE MissingKeys(_, _)
MissingKeys(keys, e) ==
    IF keys = <<>> THEN <<>>
    ELSE (IF DictHas(e, Head(keys)) THEN <<>> ELSE <<Head(keys)>>)
         \o MissingKeys(Tail(keys), e)

\* dict.setdefault(k, v)
setdefault(e, k, v) == IF DictHas(e, k) THEN e ELSE Append(e, <<k, v>>)

\* os.environ.get(k, default)
environ_get(environ, k, default) == IF DictHas(environ, k) THEN DictGet(environ, k) ELSE default

\* build.py make_build_args over build_arg_map
build_arg_map == <<"CONTAINER_USR", "CONTAINER_PSW", "CONTAINER_UID", "CONTAINER_GID">>

RECURSIVE make_build_args(_, _)
make_build_args(e, keys) ==
    IF keys = <<>> THEN <<>>
    ELSE <<T("--build-arg"), <<Head(keys), "=">> \o DictGet(e, Head(keys))>>
         \o make_build_args(e, Tail(keys))

\* the --platform element of an argument list: build.py lines 209-210
platform_args(platform_opt) == IF platform_opt # None THEN <<T(platform_opt)>> ELSE <<>>

\* an element of a Python argument list: a string, or a list
Str(x) == [type |-> "str", val |-> x]
PyList(x) == [type |-> "list", val |-> x]

\* build.py lines 193-212: the texts of the argument list
docker_build_cmd(e) ==
    LET platform_opt ==
            build_choose_platform_option(DictGet(e, "TARGET_ARCH"), DictGet(e, "SOURCE_ARCH"))
    IN  <<T("docker"), T("build"), T("--pull"), T("--rm"), T("--build-arg"),
          <<"BASE_IMAGE=">> \o DictGet(e, "BASE_IMAGE")>>
        \o make_build_args(e, build_arg_map)
        \o <<T("-f"), <<"root_dir/docker/">> \o DictGet(e, "DOCKERFILE"),
             T("--target"), DictGet(e, "BUILD_STAGE"),
             T("-t"), DictGet(e, "DOCKER_IMAGE") \o <<":">> \o DictGet(e, "DOCKER_IMAGE_TAG")>>
        \o platform_args(platform_opt)
        \o <<T("root_dir")>>

\* build.py lines 193-212: the argument list, whose elements are all strings
docker_cmd(e) ==
    LET c == docker_build_cmd(e) IN [i \in 1..Len(c) |-> Str(c[i])]

\* shlex.split of the inside of a bash array: items are separated by " "
\* pieces, and a piece between two "'" pieces is one item
RECURSIVE shlex_split(_)
shlex_split(s) ==
    IF s = <<>> THEN <<>>
    ELSE IF Head(s) = " " THEN shlex_split(Tail(s))
    ELSE IF Head(s) = "'" /\ Len(s) >= 3 THEN <<s[2]>> \o shlex_split(SubSeq(s, 4, Len(s)))
    ELSE <<Head(s)>> \o shlex_split(Tail(s))

\* run.py parse_bash_array
parse_bash_array(value) ==
    LET v == str_strip(value) IN
    IF v = <<>> THEN <<>>
    ELSE IF Head(v) = "(" /\ v[Len(v)] = ")"
        THEN shlex_split(str_strip(SubSeq(v, 2, Len(v) - 1)))
    ELSE shlex_split(v)

\* run.py lines 202-214
docker_volumes(e) ==
    LET extra == DictGet(e, "VOLUMES")
        vols  == IF extra # <<"(", ")">> THEN parse_bash_array(extra) ELSE <<>> IN
    << <<"-v">> \o DictGet(e, "LOCAL_WS_PATH") \o <<":">> \o DictGet(e, "CONTAINER_WS")
       \o <<":rw">> >>
    \o [i \in 1..Len(vols) |->
            <<"-v", vols[i], ":">> \o DictGet(e, "CONTAINER_HOME")
            \o <<"/", PathName(vols[i]), ":rw">>]

\* run.py line 217
run_platform_opt(e) ==
    run_choose_platform_option(DictGet(e, "TARGET_ARCH"), DictGet(e, "SOURCE_ARCH"))

\* run.py lines 225-248: the elements before the platform element
docker_run_before(e) ==
    <<T("docker"), T("run"), T("-it"), T("--rm"), T("--privileged"),
      T("--cap-add"), T("IPC_LOCK"), T("--ulimit"), T("memlock=-1:-1"),
      T("--device"), T("/dev:/dev"), T("--network"), T("host"),
      T("-e"), <<"LOCAL_USER_ID=">> \o DictGet(e, "CONTAINER_UID"),
      T("-e"), <<"USER=">> \o DictGet(e, "CONTAINER_USR"),
      T("-e"), <<"UID=">> \o DictGet(e, "CONTAINER_UID"),
      T("-e"), <<"GROUPS=">> \o DictGet(e, "CONTAINER_GID"),
      T("-e"), <<"DISPLAY=">> \o DictGet(e, "DISPLAY"),
      T("-e"), T("QT_X11_NO_MITSHM=1"), T("-e"), T("XAUTHORITY=/tmp/.docker.xauth"),
      T("-p"), T("14556:14556/udp"), T("-p"), T("8888-8890:8888-8890/udp"),
      T("-v"), T("/etc/localtime:/etc/localtime:ro"),
      T("-v"), T("/tmp/.X11-unix:/tmp/.X11-unix"),
      T("-v"), T("/tmp/.docker.xauth:/tmp/.docker.xauth"),
      T("-v"), T("/dev/shm:/dev/shm")>>
    \o docker_volumes(e)

\* run.py lines 225-251: the texts of the argument list when the platform
\* option is a string
docker_run_cmd(e) ==
    docker_run_before(e)
    \o <<T(run_platform_opt(e)),
         T("-h"), DictGet(e, "HOSTNAME"), T("-w"), DictGet(e, "CONTAINER_WS"),
         T("--name"), DictGet(e, "DOCKER_CONTAINER"),
         DictGet(e, "DOCKER_IMAGE") \o <<":">> \o DictGet(e, "DOCKER_IMAGE_TAG"),
         DictGet(e, "CONTAINER_RUN_CMD")>>

\* run.py lines 225-251: the argument list; (platform_opt or []) is the
\* option when it is a string and the empty list when it is None
docker_run(e) ==
    LET c == docker_run_cmd(e)
        at == Len(docker_run_before(e)) + 1 IN
    [i \in 1..Len(c) |->
        IF i = at /\ run_platform_opt(e) = None THEN PyList(<<>>) ELSE Str(c[i])]

\* run.py lines 189-194
docker_exec_cmd(e) ==
    <<T("docker"), T("exec"), T("-it"), T("-w"), DictGet(e, "CONTAINER_WS"),
      DictGet(e, "DOCKER_CONTAINER"), T("/bin/bash"), T("-c"),
      T("/entrypoint.sh ; /bin/bash")>>

\* str.lower() of a text of pieces
PieceLower(x) == IF x = "Vince-94" THEN "vince-94" ELSE LowerChar(x)
text_lower(s) == [i \in 1..Len(s) |-> PieceLower(s[i])]

\* push.py lines 84-105: the registry name
registry_name(e) ==
    <<"ghcr.io/">> \o text_lower(DictGet(e, "DOCKER_IMAGE")) \o <<":">>
    \o DictGet(e, "DOCKER_IMAGE_TAG")

\* exit codes a docker process can end with
DockerCodes == {0, 1, 125}

(***************************************************************************)
(* The entry points: generate_config.main, build, run, push.main           *)
(***************************************************************************)
NotCalled == [ret |-> "pending", env |-> <<>>, printed |-> None, named |-> <<>>, at |-> 0]
NoMessage == [says |-> None, names |-> <<>>]
Exit(code) == <<code>>
StillRunning == <<>>

\* build.py line 41, run.py line 43:  target_arch or platform.machine()
EffectiveTarget(c, t, mach) ==
    IF c \in {"build", "run"} /\ t = <<>> THEN mach ELSE t

\* an entry point that never takes the "env_vars is None" exit
GenerationFailedMutant(r) == FALSE

\* generate_config.py line 177, build.py line 42, run.py line 44, push.py line 66
generation_failed(r) == r.ret = "None"

\* every entry point returning like generate_config.main
FailedGenerationStatusMutant(c) == Exit(0)

\* status of an entry point whose generate_config returned None:
\* generate_config.main returns, the others raise SystemExit(1)
FailedGenerationStatus(c) == IF c = "generate" THEN Exit(0) ELSE Exit(1)

\* status an entry point ends with right after generate_config, if it ends
\* there: an uncaught exception ends the interpreter with status 1
ResolveStatus(c, r) ==
    IF r.ret = "raise" THEN Exit(1)
    ELSE IF generation_failed(r) THEN FailedGenerationStatus(c)
    ELSE StillRunning

\* the variables of SpecFile, SpecRace and SpecVol while those are not running
FileIdle == rt_env = <<>> /\ rt_text = <<>> /\ rt_read = <<>>
RaceIdle == shared_file = <<>> /\ writer = <<>> /\ finished = <<>>
VolIdle == vol_cfg = <<>> /\ vol_out = <<>>

InputsUnchanged == UNCHANGED <<cmd, config, target_arch, fs, machine>>
ArchUnchanged ==
    UNCHANGED <<tok, src_tok, arch_out, rt_env, rt_text, rt_read, shared_file,
                writer, finished, vol_cfg, vol_out>>

Init ==
    /\ pc = "resolve"
    /\ cmd \in EntryPoints
    /\ config \in Configs
    /\ target_arch \in TargetArgs(cmd)
    /\ fs \in FileSystems
    /\ machine \in Machines
    /\ osenv \in Environs
    /\ envfile \in {NoFile, OldFile}
    /\ env_vars = NotCalled
    /\ edited = FALSE
    /\ env = <<>>
    /\ docker = <<>>
    /\ status = StillRunning
    /\ uncaught = None
    /\ message = NoMessage
    /\ assembled = <<>>
    /\ tok = <<>>
    /\ src_tok = <<>>
    /\ arch_out = <<>>
    /\ FileIdle
    /\ RaceIdle
    /\ VolIdle

\* generate_config.main 175-179, run_generate_config 40-44, push.main 64-68
Resolve ==
    /\ pc = "resolve"
    /\ LET r == generate_config(config, EffectiveTarget(cmd, target_arch, machine),
                                fs, machine) IN
        /\ env_vars' = r
        /\ status' = ResolveStatus(cmd, r)
        /\ IF r.ret = "raise" THEN
                /\ pc' = "done"
                /\ uncaught' = r.printed
                /\ message' = [says |-> r.printed, names |-> r.named]
           ELSE IF generation_failed(r) THEN
                /\ pc' = "done"
                /\ uncaught' = None
                /\ message' = [says |-> r.printed, names |-> r.named]
           ELSE /\ pc' = "write"
                /\ UNCHANGED <<uncaught, message>>
    /\ UNCHANGED <<osenv, envfile, edited, env, docker, assembled>>
    /\ InputsUnchanged /\ ArchUnchanged

\* the write with the file opened in append mode
WriteEnvMutant ==
    /\ pc = "write"
    /\ envfile' = [exists |-> TRUE,
                   lines |-> envfile.lines \o write_env_config(env_vars.env).lines]
    /\ IF cmd = "generate"
       THEN pc' = "done" /\ status' = Exit(0)
       ELSE pc' = "read" /\ UNCHANGED status
    /\ UNCHANGED <<osenv, env_vars, edited, env, docker, uncaught, message, assembled>>
    /\ InputsUnchanged /\ ArchUnchanged

\* generate_config.main 180, run_generate_config 46-47, push.main 70-71
WriteEnv ==
    /\ pc = "write"
    /\ envfile' = write_env_config(env_vars.env)
    /\ IF cmd = "generate"
       THEN pc' = "done" /\ status' = Exit(0)
       ELSE pc' = "read" /\ UNCHANGED status
    /\ UNCHANGED <<osenv, env_vars, edited, env, docker, uncaught, message, assembled>>
    /\ InputsUnchanged /\ ArchUnchanged

\* keys another writer of config/.env drops, and architectures it sets
EditKeys == {"DOCKER_IMAGE", "DOCKER_IMAGE_TAG", "LOCAL_WS_PATH", "TARGET_ARCH"}
EditArchs == {s_armv7, s_riscv64}

RemoveKey(lines, k) == SelectSeq(lines, LAMBDA l : l[1] # k)

Edits(file) ==
    {NoFile}
    \cup {[exists |-> TRUE, lines |-> RemoveKey(file.lines, k)] : k \in EditKeys}
    \cup {[exists |-> TRUE, lines |-> DictSet(file.lines, "TARGET_ARCH", a)] :
            a \in EditArchs}

\* config/.env is hand-edited, or rewritten by another invocation, between
\* this invocation's write and its read
ExternalEdit ==
    /\ pc = "read"
    /\ ~edited
    /\ edited' = TRUE
    /\ envfile' \in Edits(envfile)
    /\ UNCHANGED <<pc, osenv, env_vars, env, docker, status, uncaught, message,
                   assembled>>
    /\ InputsUnchanged /\ ArchUnchanged

\* status of an entry point that finds no config/.env:
\* build.py 135-137, run.py 153-155, push.py 39-41
MissingFileStatus(c) ==
    IF c = "build" THEN Exit(4) ELSE IF c = "run" THEN Exit(5) ELSE Exit(1)

\* build.py 132-137, run.py 150-155, push.py 74-78
ReadEnv ==
    /\ pc = "read"
    /\ IF ~envfile.exists THEN
            /\ pc' = "done"
            /\ status' = MissingFileStatus(cmd)
            /\ message' = [says |-> "env file not found", names |-> <<>>]
            /\ UNCHANGED <<env, osenv>>
       ELSE IF cmd = "push" THEN
            /\ osenv' = load_env_file(osenv, envfile)
            /\ env' = osenv'
            /\ pc' = "assemble"
            /\ UNCHANGED <<status, message>>
       ELSE /\ env' = parse_env_file(envfile)
            /\ pc' = "assemble"
            /\ UNCHANGED <<status, message, osenv>>
    /\ UNCHANGED <<env_vars, envfile, edited, docker, uncaught, assembled>>
    /\ InputsUnchanged /\ ArchUnchanged

\* build.py 139-222
BuildAssemble ==
    /\ pc = "assemble" /\ cmd = "build"
    /\ pc' = "done"
    /\ LET m == FirstMissing(build_required, env) IN
       IF m # 0 THEN
            /\ status' = Exit(5)
            /\ message' = [says |-> "Missing required var", names |-> <<build_required[m]>>]
            /\ UNCHANGED <<docker, assembled>>
       ELSE \E rc \in DockerCodes :
            /\ assembled' = docker_cmd(env)
            /\ docker' = Append(docker, [i \in 1..Len(assembled') |-> assembled'[i].val])
            /\ status' = IF rc = 0 THEN Exit(0) ELSE Exit(7)
            /\ message' = IF rc = 0 THEN message
                          ELSE [says |-> "docker build failed", names |-> <<>>]
    /\ UNCHANGED <<osenv, env_vars, envfile, edited, env, uncaught>>
    /\ InputsUnchanged /\ ArchUnchanged

\* run.py 157-179
RunAssemble ==
    /\ pc = "assemble" /\ cmd = "run"
    /\ LET k == FirstMissing(run_subscripted, env)
           e == setdefault(setdefault(env, "DISPLAY", environ_get(osenv, "DISPLAY", T(""))),
                           "HOSTNAME", environ_get(osenv, "HOSTNAME", T("localhost")))
           missing == MissingKeys(run_required, e) IN
       IF k # 0 THEN
            /\ pc' = "done"
            /\ status' = Exit(1)
            /\ uncaught' = "KeyError"
            /\ message' = [says |-> "KeyError", names |-> <<run_subscripted[k]>>]
            /\ UNCHANGED env
       ELSE IF missing # <<>> THEN
            /\ pc' = "done"
            /\ status' = Exit(6)
            /\ message' = [says |-> "Missing required vars", names |-> missing]
            /\ env' = e
            /\ UNCHANGED uncaught
       ELSE /\ pc' = "inspect"
            /\ env' = e
            /\ UNCHANGED <<status, uncaught, message>>
    /\ UNCHANGED <<osenv, env_vars, envfile, edited, docker, assembled>>
    /\ InputsUnchanged /\ ArchUnchanged

\* run.py 181-184 with docker_image_exists 114-117
RunImageProbe ==
    /\ pc = "inspect"
    /\ docker' = Append(docker,
            <<T("docker"), T("image"), T("inspect"),
              DictGet(env, "DOCKER_IMAGE") \o <<":">> \o DictGet(env, "DOCKER_IMAGE_TAG")>>)
    /\ \E exists \in BOOLEAN :
        IF exists THEN pc' = "ps" /\ UNCHANGED <<status, message>>
        ELSE /\ pc' = "done"
             /\ status' = Exit(7)
             /\ message' = [says |-> "Docker image not found", names |-> <<>>]
    /\ UNCHANGED <<osenv, env_vars, envfile, edited, env, uncaught, assembled>>
    /\ InputsUnchanged /\ ArchUnchanged

\* run.py 186-187 with container_running 120-123
RunContainerProbe ==
    /\ pc = "ps"
    /\ docker' = Append(docker,
            <<T("docker"), T("ps"), T("-q"), T("-f"),
              <<"name=">> \o DictGet(env, "DOCKER_CONTAINER")>>)
    /\ \E running \in BOOLEAN : pc' = IF running THEN "join" ELSE "create"
    /\ UNCHANGED <<osenv, env_vars, envfile, edited, env, status, uncaught,
                   message, assembled>>
    /\ InputsUnchanged /\ ArchUnchanged

\* run.py 188-195
RunJoin ==
    /\ pc = "join"
    /\ pc' = "done"
    /\ docker' = Append(docker, docker_exec_cmd(env))
    /\ \E rc \in DockerCodes :
        IF rc = 0 THEN status' = Exit(0) /\ UNCHANGED <<uncaught, message>>
        ELSE /\ status' = Exit(1)
             /\ uncaught' = "CalledProcessError"
             /\ message' = [says |-> "CalledProcessError", names |-> <<>>]
    /\ UNCHANGED <<osenv, env_vars, envfile, edited, env, assembled>>
    /\ InputsUnchanged /\ ArchUnchanged

\* run.py 197-256: with no platform option the list holds the element [],
\* which subprocess.run rejects with a TypeError before any process starts
RunCreate ==
    /\ pc = "create"
    /\ pc' = "done"
    /\ assembled' = docker_run(env)
    /\ IF \E i \in 1..Len(assembled') : assembled'[i].type # "str" THEN
            /\ status' = Exit(1)
            /\ uncaught' = "TypeError"
            /\ message' = [says |-> "TypeError", names |-> <<>>]
            /\ UNCHANGED docker
       ELSE /\ docker' = Append(docker, [i \in 1..Len(assembled') |-> assembled'[i].val])
            /\ \E rc \in DockerCodes :
                IF rc = 0 THEN status' = Exit(0) /\ UNCHANGED <<uncaught, message>>
                ELSE /\ status' = Exit(1)
                     /\ uncaught' = "CalledProcessError"
                     /\ message' = [says |-> "CalledProcessError", names |-> <<>>]
    /\ UNCHANGED <<osenv, env_vars, envfile, edited, env>>
    /\ InputsUnchanged /\ ArchUnchanged

\* push.py 77-82:  os.environ.get(...) and "not docker_image or not docker_tag"
PushAssemble ==
    /\ pc = "assemble" /\ cmd = "push"
    /\ IF \/ environ_get(env, "DOCKER_IMAGE", <<>>) = <<>>
          \/ environ_get(env, "DOCKER_IMAGE_TAG", <<>>) = <<>>
       THEN /\ pc' = "done"
            /\ status' = Exit(1)
            /\ message' = [says |-> "must be set",
                           names |-> <<"DOCKER_IMAGE", "DOCKER_IMAGE_TAG">>]
       ELSE /\ pc' = "tag"
            /\ UNCHANGED <<status, message>>
    /\ UNCHANGED <<osenv, env_vars, envfile, edited, env, docker, uncaught, assembled>>
    /\ InputsUnchanged /\ ArchUnchanged

\* push.py 31-34 and 108-113: a docker process that fails ends the
\* invocation with its return code
PushStep(at, argv, next) ==
    /\ pc = at
    /\ docker' = Append(docker, argv)
    /\ \E rc \in DockerCodes :
        IF rc = 0 THEN
            /\ pc' = next
            /\ status' = IF next = "done" THEN Exit(0) ELSE status
            /\ UNCHANGED message
        ELSE /\ pc' = "done"
             /\ status' = Exit(rc)
             /\ message' = [says |-> "Command failed", names |-> <<>>]
    /\ UNCHANGED <<osenv, env_vars, envfile, edited, env, uncaught, assembled>>
    /\ InputsUnchanged /\ ArchUnchanged

\* push.py 96
PushTag ==
    PushStep("tag",
             <<T("docker"), T("tag"),
               DictGet(env, "DOCKER_IMAGE") \o <<":">> \o DictGet(env, "DOCKER_IMAGE_TAG"),
               registry_name(env)>>,
             "push")

\* docker push as the last command of push
PushPushMutant == PushStep("push", <<T("docker"), T("push"), registry_name(env)>>, "done")

\* push.py 102
PushPush == PushStep("push", <<T("docker"), T("push"), registry_name(env)>>, "rmi")

\* push.py 105
PushRmi == PushStep("rmi", <<T("docker"), T("rmi"), registry_name(env)>>, "done")

Next ==
    \/ Resolve
    \/ WriteEnv
    \/ ExternalEdit
    \/ ReadEnv
    \/ BuildAssemble
    \/ RunAssemble
    \/ RunImageProbe
    \/ RunContainerProbe
    \/ RunJoin
    \/ RunCreate
    \/ PushAssemble
    \/ PushTag
    \/ PushPush
    \/ PushRmi

Spec == Init /\ [][Next]_vars

(***************************************************************************)
(* SpecArch: the two normalizers and the two platform selectors applied    *)
(* to one architecture token                                               *)
(***************************************************************************)
ArchBases ==
    {s_develop, s_deploy, s_x86_64, s_arm, s_aarch64, s_arm64, s_armv7, s_armv7l,
     s_armv7hf, s_armv8, s_riscv64, s_empty}

\* every base token, lower or upper case, with up to MaxPad spaces around it
ArchTokens ==
    {Pad(l, w, r) : l \in 0..MaxPad, r \in 0..MaxPad,
                    w \in ArchBases \cup {str_upper(x) : x \in ArchBases}}

NotApplied ==
    [applied |-> {}, build_norm |-> <<>>, run_norm |-> <<>>,
     build_opt |-> None, run_opt |-> None]

InitArch ==
    /\ pc = "arch"
    /\ cmd = None
    /\ config = <<>>
    /\ target_arch = <<>>
    /\ fs = <<>>
    /\ machine = <<>>
    /\ osenv = <<>>
    /\ env_vars = NotCalled
    /\ envfile = NoFile
    /\ edited = FALSE
    /\ env = <<>>
    /\ docker = <<>>
    /\ status = StillRunning
    /\ uncaught = None
    /\ message = NoMessage
    /\ assembled = <<>>
    /\ tok \in ArchTokens
    /\ src_tok \in Machines \cup {s_armv7l}
    /\ arch_out = NotApplied
    /\ FileIdle
    /\ RaceIdle
    /\ VolIdle

MainUnchanged ==
    UNCHANGED <<pc, cmd, config, target_arch, fs, machine, osenv, env_vars, envfile,
                edited, env, docker, status, uncaught, message, assembled, tok,
                src_tok, rt_env, rt_text, rt_read, shared_file, writer, finished,
                vol_cfg, vol_out>>

Apply(name, field, value) ==
    /\ pc = "arch"
    /\ name \notin arch_out.applied
    /\ arch_out' = [arch_out EXCEPT !.applied = @ \cup {name}, ![field] = value]
    /\ MainUnchanged

BuildNormalize == Apply("build.normalize_arch", "build_norm", build_normalize_arch(tok))

RunNormalize == Apply("run.normalize_arch", "run_norm", run_normalize_arch(tok))

BuildSelect ==
    Apply("build.choose_platform_option", "build_opt",
          build_choose_platform_option(tok, src_tok))

RunSelect ==
    Apply("run.choose_platform_option", "run_opt",
          run_choose_platform_option(tok, src_tok))

NextArch == BuildNormalize \/ RunNormalize \/ BuildSelect \/ RunSelect

SpecArch == InitArch /\ [][NextArch]_vars

(***************************************************************************)
(* Properties                                                              *)
(***************************************************************************)
\* the target generate_config is called with
Target == EffectiveTarget(cmd, target_arch, machine)

Resolved == pc # "resolve"

\* the supported sets of the configuration admit target, middleware and
\* distribution
Admitted ==
    /\ Target \in config.supported.architectures
    /\ config.middleware \in config.supported.middlewares
    /\ config.ros2_distro \in config.supported.ros2_distros

\* the configuration holds every key generate_config subscripts, and the
\* repository directory, the volumes and the dockerfile exist
Loadable ==
    /\ config.has_target_platorm
    /\ fs.project_dir
    /\ \A i \in 1..Len(config.volumes) : config.volumes[i] \in fs.dirs
    /\ dockerfile_name(config) \in fs.dockerfiles

EnvIs(stage, tag, arch) ==
    /\ env_vars.ret = "env"
    /\ DictGet(env_vars.env, "BUILD_STAGE") = T(stage)
    /\ DictGet(env_vars.env, "DOCKER_IMAGE_TAG") = T(tag)
    /\ DictGet(env_vars.env, "TARGET_ARCH") = arch

BaseImageFrom(name) ==
    DictGet(env_vars.env, "BASE_IMAGE") =
        str_replace(DictGet(config.docker_base_images, name), "ROS2_DISTRO",
                    T(config.ros2_distro))

PlatformOptionIs(flag) ==
    /\ build_choose_platform_option(DictGet(env_vars.env, "TARGET_ARCH"),
                                    DictGet(env_vars.env, "SOURCE_ARCH")) = flag
    /\ run_choose_platform_option(DictGet(env_vars.env, "TARGET_ARCH"),
                                  DictGet(env_vars.env, "SOURCE_ARCH")) = flag

\* C1: for middleware ros2 and a target the supported sets admit, resolving
\* develop or x86_64 gives develop-stage, tag develop, TARGET_ARCH x86_64, the
\* x86 base image and the amd64 platform flag; resolving deploy, arm or
\* aarch64 gives deploy-stage, tag deploy, TARGET_ARCH arm, the arm base image
\* and the arm64 flag. Resolution succeeds whenever the configuration is
\* loadable and the probed paths exist.
C1_Ros2Mapping ==
    (Resolved /\ config.middleware = "ros2" /\ Admitted) =>
        /\ Target \in {s_develop, s_x86_64} =>
            /\ Loadable => env_vars.ret = "env"
            /\ env_vars.ret = "env" =>
                /\ EnvIs("develop-stage", "develop", s_x86_64)
                /\ BaseImageFrom("x86_full_image")
                /\ PlatformOptionIs(AMD64_FLAG)
        /\ Target \in {s_deploy, s_arm, s_aarch64} =>
            /\ Loadable => env_vars.ret = "env"
            /\ env_vars.ret = "env" =>
                /\ EnvIs("deploy-stage", "deploy", s_arm)
                /\ BaseImageFrom("arm_base_image")
                /\ PlatformOptionIs(ARM64_FLAG)

C1_Witness ==
    /\ pc = "write" /\ config.middleware = "ros2" /\ Target = s_aarch64
    /\ EnvIs("deploy-stage", "deploy", s_arm)
    /\ PlatformOptionIs(ARM64_FLAG)

\* C2: for middleware micro-ros only the targets develop and deploy resolve,
\* to (develop-stage, develop, x86_64) and (deploy-stage, deploy, arm); every
\* other target, also a supported aarch64, arm or x86_64, returns no
\* environment and is reported as an unsupported architecture.
C2_MicroRosAliasesOnly ==
    (Resolved /\ config.middleware = "micro-ros" /\ Admitted) =>
        /\ Target = s_develop =>
            /\ Loadable => env_vars.ret = "env"
            /\ env_vars.ret = "env" => EnvIs("develop-stage", "develop", s_x86_64)
        /\ Target = s_deploy =>
            /\ Loadable => env_vars.ret = "env"
            /\ env_vars.ret = "env" => EnvIs("deploy-stage", "deploy", s_arm)
        /\ Target \notin {s_develop, s_deploy} =>
            /\ env_vars.ret # "env"
            /\ pc = "done"
            /\ Loadable =>
                /\ env_vars.ret = "None"
                /\ env_vars.printed = "Unsupported architecture"
                /\ env_vars.named = Target

C2_Witness ==
    /\ pc = "done" /\ config.middleware = "micro-ros" /\ Admitted /\ Loadable
    /\ Target = s_aarch64
    /\ env_vars.ret = "None" /\ env_vars.printed = "Unsupported architecture"

\* the (middleware, target) pair lies outside the declared supported sets
OutsideSupported ==
    \/ Target \notin config.supported.architectures
    \/ config.middleware \notin config.supported.middlewares

\* C3: when the (middleware, target) pair is outside the supported sets, no
\* step of generate_config.main, build, run or push changes config/.env, no
\* environment is returned, and a loadable configuration is answered with the
\* unsupported-architecture or unsupported-middleware diagnostic.
C3_NoWriteOutsideSupported ==
    [][OutsideSupported =>
        /\ envfile' = envfile
        /\ env_vars'.ret # "env"
        /\ pc' = "done"
        /\ docker' = <<>>
        /\ config.has_target_platorm =>
            /\ env_vars'.ret = "None"
            /\ env_vars'.printed \in {"Unsupported architecture", "Unsupported middleware"}
      ]_vars

C3_Witness ==
    /\ pc = "done" /\ cmd = "build" /\ OutsideSupported
    /\ Target \in config.supported.architectures
    /\ env_vars.printed = "Unsupported middleware"
    /\ envfile = OldFile

\* normalization as the resolver is specified to apply it: trimmed,
\* lower-cased, arm64 -> aarch64
SpecNormalized(t) ==
    LET s == str_lower(str_strip(t)) IN IF s = s_arm64 THEN s_aarch64 ELSE s

\* C4: the resolver normalizes the target before branching: for ros2 a target
\* whose normalized form is arm, aarch64 or deploy resolves to (deploy-stage,
\* deploy, arm), one whose normalized form is x86_64 or develop resolves to
\* (develop-stage, develop, x86_64).
C4_NormalizedBeforeBranch ==
    (Resolved /\ config.middleware = "ros2" /\ Admitted /\ Loadable) =>
        /\ SpecNormalized(Target) \in {s_arm, s_aarch64, s_deploy} =>
            EnvIs("deploy-stage", "deploy", s_arm)
        /\ SpecNormalized(Target) \in {s_x86_64, s_develop} =>
            EnvIs("develop-stage", "develop", s_x86_64)

\* the normalization rule: arm64 -> aarch64, every armv7 variant -> armv7,
\* any other token trimmed and lower-cased
RuleNormalized(t) ==
    LET s == str_lower(str_strip(t)) IN
    IF s = s_arm64 THEN s_aarch64
    ELSE IF str_startswith(s, s_armv7) THEN s_armv7
    ELSE s

\* C5: each normalize_arch of the program (build.py, run.py) trims and
\* lower-cases its token and maps arm64 to aarch64 and armv7, armv7l, ARMV7L to
\* armv7, returning any other token otherwise unchanged.
C5_NormalizersFollowRule ==
    /\ "build.normalize_arch" \in arch_out.applied =>
            arch_out.build_norm = RuleNormalized(tok)
    /\ "run.normalize_arch" \in arch_out.applied =>
            arch_out.run_norm = RuleNormalized(tok)

\* the platform option of a normalized target
RuleOption(n) ==
    IF n \in {s_develop, s_x86_64} THEN AMD64_FLAG
    ELSE IF n \in {s_deploy, s_arm, s_aarch64} THEN ARM64_FLAG
    ELSE IF n = s_armv7 THEN ARMV7_FLAG
    ELSE None

\* C6: for every target and source, choose_platform_option is the platform
\* option of the normalized target alone (amd64 for develop and x86_64, arm64
\* for deploy, arm and aarch64, arm/v7 for armv7, none otherwise), and the
\* selectors of build.py and run.py agree.
C6_SelectorsFollowRule ==
    /\ "build.choose_platform_option" \in arch_out.applied =>
            arch_out.build_opt = RuleOption(RuleNormalized(tok))
    /\ "run.choose_platform_option" \in arch_out.applied =>
            arch_out.run_opt = RuleOption(RuleNormalized(tok))
    /\ {"build.choose_platform_option", "run.choose_platform_option"}
            \subseteq arch_out.applied =>
            arch_out.build_opt = arch_out.run_opt

\* the keys an assembler needs from the persisted mapping
NeededKeys(c) ==
    IF c = "build" THEN build_required
    ELSE IF c = "run" THEN run_required
    ELSE <<"DOCKER_IMAGE", "DOCKER_IMAGE_TAG">>

\* the invocation has read a config/.env that lacks a key its assembler needs
LacksNeededKey ==
    /\ cmd \in {"build", "run", "push"}
    /\ pc \notin {"resolve", "write", "read"}
    /\ env_vars.ret = "env"
    /\ envfile.exists
    /\ FirstMissing(NeededKeys(cmd), parse_env_file(envfile)) # 0

FirstLackedKey ==
    NeededKeys(cmd)[FirstMissing(NeededKeys(cmd), parse_env_file(envfile))]

MissingKeyDiagnostics == {"Missing required var", "Missing required vars", "must be set"}

\* C7: build, run and push, given a persisted mapping that lacks a key they
\* need, end with a missing-required-key failure that names the key, spawn no
\* docker process, and do so whatever the ambient process environment holds.
C7_MissingKeyFailsFast ==
    LacksNeededKey =>
        /\ pc \in {"assemble", "done"}
        /\ docker = <<>>
        /\ pc = "done" =>
            /\ uncaught = None
            /\ message.says \in MissingKeyDiagnostics
            /\ \E i \in 1..Len(message.names) : message.names[i] = FirstLackedKey

\* failure category of a result of generate_config: the four checks of the
\* validator (return statements at lines 51, 56, 61, 67, 79), or the later
\* rejections of the resolver (lines 112, 126, 143)
Category(r) ==
    IF r.ret = "None" /\ r.at \in {51, 56, 61, 67, 79} THEN "validation"
    ELSE IF r.ret = "None" /\ r.at \in {112, 126, 143} THEN "resolution"
    ELSE "none"

\* failure category the invocation ended in
EndedIn ==
    IF Category(env_vars) # "none" THEN Category(env_vars)
    ELSE IF LacksNeededKey THEN "missing-key"
    ELSE "none"

\* the statuses this entry point ends with for failures of category cat, over
\* the targets and filesystems it can be run with
StatusesOf(cat) ==
    {ResolveStatus(cmd, generate_config(config, EffectiveTarget(cmd, t, machine), f, machine)) :
        <<t, f>> \in {x \in TargetArgs(cmd) \X FileSystems :
            Category(generate_config(config, EffectiveTarget(cmd, x[1], machine),
                                     x[2], machine)) = cat}}

\* C8: in build, run and push a validation failure, a resolution failure and
\* a missing-key failure end the invocation with three pairwise distinct exit
\* statuses, and none of them ends it with an uncaught exception.
C8_DistinctFailureStatuses ==
    (pc = "done" /\ cmd \in {"build", "run", "push"} /\ EndedIn # "none") =>
        /\ uncaught = None
        /\ \A cat \in {"validation", "resolution"} \ {EndedIn} :
                status \notin StatusesOf(cat)

ResolvedTemplates == {"BASE_IMAGE", "DOCKERFILE", "DOCKER_IMAGE", "DOCKER_CONTAINER"}

HasPlaceholder(text) == \E i \in 1..Len(text) : text[i] \in Placeholders

\* C9: an environment returned by generate_config holds no placeholder token
\* in BASE_IMAGE, DOCKERFILE, DOCKER_IMAGE or DOCKER_CONTAINER (a template that
\* keeps one makes generate_config fail instead).
C9_NoPlaceholderReturned ==
    env_vars.ret = "env" =>
        \A k \in ResolvedTemplates : ~HasPlaceholder(DictGet(env_vars.env, k))

\* a template with every placeholder replaced by its resolved value
Substituted(text, tag) ==
    str_replace(
        str_replace(
            str_replace(
                str_replace(
                    str_replace(text, "REPO_AUTHOR", T(config.repo_author)),
                    "PROJECT_REPO", T(config.project_repo)),
                "ROS2_DISTRO", T(config.ros2_distro)),
            "MIDDLEWARE", T(config.middleware)),
        "TAG", tag)

\* C10: in a returned environment each of the four templates has every
\* occurrence of REPO_AUTHOR, PROJECT_REPO, ROS2_DISTRO, MIDDLEWARE and TAG
\* replaced by the resolved value.
C10_EveryPlaceholderReplaced ==
    env_vars.ret = "env" =>
        LET tag   == DictGet(env_vars.env, "DOCKER_IMAGE_TAG")
            names == config.docker_file_image_container
            base  == MiddlewareBranch(config, Target).base_image IN
        /\ DictGet(env_vars.env, "BASE_IMAGE") = Substituted(base, tag)
        /\ DictGet(env_vars.env, "DOCKERFILE") = Substituted(names.dockerfile, tag)
        /\ DictGet(env_vars.env, "DOCKER_IMAGE") = Substituted(names.docker_image, tag)
        /\ DictGet(env_vars.env, "DOCKER_CONTAINER") = Substituted(names.docker_container, tag)

\* generate_config.py lines 47-79: the validator checks whose condition was
\* evaluated before generate_config left at the line r.at
checks_evaluated(r) ==
    IF r.at = 43 THEN <<>>
    ELSE IF r.at = 51 THEN <<"architecture">>
    ELSE IF r.at = 56 THEN <<"architecture", "middleware">>
    ELSE IF r.at = 61 THEN <<"architecture", "middleware", "distribution">>
    ELSE <<"architecture", "middleware", "distribution", "paths">>

\* the diagnostic of the first validator check, in the order architecture,
\* middleware, distribution, paths, that the inputs fail
FirstFailingCheck ==
    IF Target \notin config.supported.architectures THEN "Unsupported architecture"
    ELSE IF config.middleware \notin config.supported.middlewares
        THEN "Unsupported middleware"
    ELSE IF config.ros2_distro \notin config.supported.ros2_distros
        THEN "Unsupported ROS2 distribution"
    ELSE IF \/ ~fs.project_dir
            \/ \E i \in 1..Len(config.volumes) : config.volumes[i] \notin fs.dirs
        THEN "Directory does not exist"
    ELSE None

\* C11: validation evaluates its four checks in the order architecture,
\* middleware, distribution, paths, evaluates all four on every invocation,
\* and reports the first failing one.
C11_EagerOrderedValidation ==
    (Resolved /\ cmd \in EntryPoints /\ env_vars.ret # "raise") =>
        /\ checks_evaluated(env_vars) =
                <<"architecture", "middleware", "distribution", "paths">>
        /\ FirstFailingCheck # None => env_vars.printed = FirstFailingCheck

\* the five partial mappings of a successful generate_config, in merge order
PartialMappings ==
    LET b == MiddlewareBranch(config, Target) IN
    <<repo_env(config), volumes_env(config), container_env(config),
      base_image_env(config, b, machine), image_env(config, b)>>

KeysOf(d) == {d[i][1] : i \in 1..Len(d)}

\* the value of key k in the earliest of the mappings pm that defines it
EarliestValue(pm, k) ==
    LET i == CHOOSE n \in 1..Len(pm) :
                /\ DictHas(pm[n], k)
                /\ \A m \in 1..(n - 1) : ~DictHas(pm[m], k)
    IN  DictGet(pm[i], k)

\* C12: in the environment generate_config has just returned the key sets of
\* the five partial mappings are pairwise disjoint, every key of every partial
\* mapping is present, and each key has the value of the earliest partial
\* mapping that defines it.
C12_MergeNeverOverwrites ==
    (pc = "write" /\ env_vars.ret = "env") =>
        LET pm == PartialMappings
            keys == [i \in 1..Len(pm) |-> KeysOf(pm[i])]
        IN  /\ \A i, j \in 1..Len(pm) : i # j => keys[i] \cap keys[j] = {}
            /\ KeysOf(env_vars.env) = UNION {keys[i] : i \in 1..Len(pm)}
            /\ \A k \in KeysOf(env_vars.env) :
                    DictGet(env_vars.env, k) = EarliestValue(pm, k)

C12_Witness ==
    /\ pc = "write"
    /\ env_vars.ret = "env"
    /\ Len(env_vars.env) = 19
    /\ DictGet(env_vars.env, "DOCKER_IMAGE_TAG") = T("deploy")
    /\ DictGet(env_vars.env, "PROJECT_REPO") = T(config.project_repo)

\* the top-level fields a declarative configuration is required to have
RequiredFields ==
    {"repo_author", "project_repo", "volumes", "container_env", "ros2_distro",
     "middleware", "docker_base_images", "docker_file_image_container",
     "container_run_cmd", "supported"}

\* C17: for a configuration holding every required top-level field and any
\* target, generate_config returns an environment or a typed failure and
\* never ends with an uncaught exception.
C17_NoUncaughtException ==
    (Resolved /\ RequiredFields \subseteq DOMAIN config) => env_vars.ret # "raise"

\* C18 as stated: the final "unknown middleware" branch of generate_config
\* (lines 128-130) is reached for no configuration.
C18_UnknownBranchUnreachable ==
    Resolved => env_vars.at # 130

\* C18: a middleware other than ros2 and micro-ros never resolves; the final
\* branch is reached exactly when such a middleware is listed as supported
\* and selected and the configuration loads and passes the other checks, it
\* then reports the middleware as unsupported and returns no environment;
\* with only ros2 and micro-ros listed the branch is unreachable.
C18_UnknownBranchOnlyForListedThird ==
    Resolved =>
        /\ config.middleware \notin {"ros2", "micro-ros"} => env_vars.ret # "env"
        /\ config.supported.middlewares \subseteq {"ros2", "micro-ros"} =>
                env_vars.at # 130
        /\ env_vars.at = 130 <=>
                /\ config.has_target_platorm
                /\ config.middleware \notin {"ros2", "micro-ros"}
                /\ config.middleware \in config.supported.middlewares
                /\ FirstFailingCheck = None
        /\ env_vars.at = 130 =>
                /\ env_vars.ret = "None"
                /\ env_vars.printed = "Unsupported middleware"
                /\ env_vars.named = T(config.middleware)

C18_Witness ==
    /\ pc = "done"
    /\ env_vars.at = 130
    /\ config.middleware = "zenoh"
    /\ "zenoh" \in config.supported.middlewares
    /\ envfile = OldFile

\* position of a step in the data flow of build, run and push
Rank(p) ==
    CASE p = "resolve" -> 0
      [] p = "write" -> 1
      [] p = "read" -> 2
      [] p = "assemble" -> 3
      [] p \in {"inspect", "ps", "join", "create", "tag", "push", "rmi"} -> 4
      [] p = "done" -> 5

\* one step of build, run or push: the steps go resolve, write, read,
\* assemble, docker; docker processes start only from the assembler on and
\* only with an environment resolved and written in this invocation; a failed
\* resolution ends the invocation with no docker process, the persisted file
\* as it was and a non-zero exit status
PipelineStep ==
    cmd \in {"build", "run", "push"} =>
        /\ pc' # pc =>
                \/ Rank(pc') = Rank(pc) + 1
                \/ pc' = "done"
                \/ Rank(pc) = 4 /\ Rank(pc') = 4
        /\ pc = "resolve" => (env_vars' # NotCalled /\ envfile' = envfile)
        /\ pc = "write" =>
                /\ env_vars = generate_config(config, Target, fs, machine)
                /\ env_vars.ret = "env"
                /\ envfile' = write_env_config(env_vars.env)
        /\ docker' # docker => (Rank(pc) >= 3 /\ env_vars.ret = "env")
        /\ (pc = "resolve" /\ env_vars'.ret # "env") =>
                /\ pc' = "done"
                /\ docker' = <<>>
                /\ envfile' = envfile
                /\ status' # StillRunning
                /\ status' # Exit(0)

\* C19: in build, run and push the steps occur in the order resolve, write,
\* read, assemble, docker with the environment resolved in that invocation,
\* and a failed resolution spawns no docker process, leaves the persisted
\* file unchanged and exits with a non-zero status.
C19_PipelineOrder == [][PipelineStep]_vars

C19_Witness ==
    /\ cmd = "push"
    /\ pc = "done"
    /\ env_vars.at = 143
    /\ docker = <<>>
    /\ envfile = OldFile
    /\ status = Exit(1)

\* the docker processes of kind sub ("run", "exec", ...) an invocation started
Started(log, sub) == {i \in 1..Len(log) : log[i][2] = T(sub)}

\* one step of run after the liveness probe: a running container is joined
\* with docker exec and never created, a container that is not running is
\* created with docker run and never joined
ProbeStep ==
    /\ pc = "join" =>
            /\ docker' = Append(docker, docker_exec_cmd(env))
            /\ Started(docker', "run") = {}
    /\ pc = "create" =>
            /\ docker' = Append(docker, docker_run_cmd(env))
            /\ Started(docker', "exec") = {}

IsPlatformElement(x) ==
    /\ x.type = "str"
    /\ Len(x.val) = 1
    /\ x.val[1] \in {AMD64_FLAG, ARM64_FLAG, ARMV7_FLAG}

\* the platform option the assembler of this invocation computed
PlatformOpt ==
    IF cmd = "build"
    THEN build_choose_platform_option(DictGet(env, "TARGET_ARCH"), DictGet(env, "SOURCE_ARCH"))
    ELSE run_platform_opt(env)

\* C20: every element of the argument list the build or the run assembler
\* made is a string; with no platform option the list holds no platform
\* element, with one it holds exactly one --platform=... element, in build
\* right after "-t image:tag" and right before the final context path.
C20_ArgumentListOfStrings ==
    assembled # <<>> =>
        LET n == Len(assembled)
            flags == {i \in 1..n : IsPlatformElement(assembled[i])} IN
        /\ \A i \in 1..n : assembled[i].type = "str"
        /\ PlatformOpt = None => flags = {}
        /\ PlatformOpt # None =>
                /\ Cardinality(flags) = 1
                /\ \A i \in flags : assembled[i].val = T(PlatformOpt)
        /\ (cmd = "build" /\ PlatformOpt # None) =>
                /\ flags = {n - 1}
                /\ assembled[n - 3].val = T("-t")
                /\ assembled[n - 2].val =
                        DictGet(env, "DOCKER_IMAGE") \o <<":">> \o DictGet(env, "DOCKER_IMAGE_TAG")

(***************************************************************************)
(* SpecFile: config/.env character by character                            *)
(*                                                                         *)
(* write_env_config writes a mapping whose keys and values are sequences   *)
(* of characters, and each parser of the repository reads the text back.   *)
(***************************************************************************)
\* longest value of the mapping written
MaxValLen == 3

\* the variables of the entry points while another specification runs
main_vars ==
    <<pc, cmd, config, target_arch, fs, machine, osenv, env_vars, envfile, edited,
      env, docker, status, uncaught, message, assembled>>

MainIdle ==
    /\ cmd = None
    /\ config = <<>>
    /\ target_arch = <<>>
    /\ fs = <<>>
    /\ machine = <<>>
    /\ osenv = <<>>
    /\ env_vars = NotCalled
    /\ envfile = NoFile
    /\ edited = FALSE
    /\ env = <<>>
    /\ docker = <<>>
    /\ status = StillRunning
    /\ uncaught = None
    /\ message = NoMessage
    /\ assembled = <<>>

ArchIdle == tok = <<>> /\ src_tok = <<>> /\ arch_out = <<>>

\* generate_config.py write_env_config 166-169: f"{key}={value}\n" per item
RECURSIVE write_env_text(_)
write_env_text(e) ==
    IF e = <<>> THEN <<>>
    ELSE Head(e)[1] \o <<"=">> \o Head(e)[2] \o <<"\n">> \o write_env_text(Tail(e))

\* str.find: the first position of character c in s, 0 when there is none
IndexOf(s, c) ==
    IF \E i \in 1..Len(s) : s[i] = c
    THEN CHOOSE i \in 1..Len(s) : s[i] = c /\ \A j \in 1..(i - 1) : s[j] # c
    ELSE 0

\* str.splitlines, and the lines a text file iterates over
RECURSIVE splitlines(_)
splitlines(text) ==
    LET i == IndexOf(text, "\n") IN
    IF text = <<>> THEN <<>>
    ELSE IF i = 0 THEN <<text>>
    ELSE <<SubSeq(text, 1, i - 1)>> \o splitlines(SubSeq(text, i + 1, Len(text)))

\* str.strip(c) for one character c
RECURSIVE strip_char(_, _)
strip_char(s, c) ==
    IF s # <<>> /\ Head(s) = c THEN strip_char(Tail(s), c)
    ELSE IF s # <<>> /\ s[Len(s)] = c THEN strip_char(SubSeq(s, 1, Len(s) - 1), c)
    ELSE s

\* build.py parse_env_file 61-67 (run.py 57-63): the loop body for the lines
\* left, after which acc is returned
RECURSIVE build_parse_text_lines(_, _)
build_parse_text_lines(lines, acc) ==
    IF lines = <<>> THEN acc
    ELSE LET line == str_strip(Head(lines))
             eq   == IndexOf(line, "=") IN
         IF line = <<>> \/ Head(line) = "#" \/ eq = 0
         THEN build_parse_text_lines(Tail(lines), acc)
         ELSE build_parse_text_lines(Tail(lines),
                DictSet(acc, str_strip(SubSeq(line, 1, eq - 1)),
                        str_strip(SubSeq(line, eq + 1, Len(line)))))

\* build.py parse_env_file 50-68 on the text of an existing file
build_parse_env_file(text) == build_parse_text_lines(splitlines(text), <<>>)

\* run.py parse_env_file 52-64 on the text of an existing file
run_parse_env_file(text) == build_parse_text_lines(splitlines(text), <<>>)

\* push.py load_env_file 43-51 on the text of an existing file: the same
\* loop, storing each pair into os.environ
push_load_env_file(environ, text) == build_parse_text_lines(splitlines(text), environ)

\* config.py load_env_file 30-37: the loop body for the lines left
RECURSIVE config_load_text_lines(_, _)
config_load_text_lines(lines, acc) ==
    IF lines = <<>> THEN acc
    ELSE LET line == str_strip(Head(lines))
             eq   == IndexOf(line, "=") IN
         IF line = <<>> \/ Head(line) = "#" \/ eq = 0
         THEN config_load_text_lines(Tail(lines), acc)
         ELSE config_load_text_lines(Tail(lines),
                DictSet(acc, str_strip(SubSeq(line, 1, eq - 1)),
                        strip_char(strip_char(str_strip(SubSeq(line, eq + 1, Len(line))),
                                              "\""),
                                   "'")))

\* config.py load_env_file 26-38
config_load_env_file(text) == config_load_text_lines(splitlines(text), <<>>)

\* characters of the values written: none is a newline
ValueChars == {"a", " ", "=", "'", "\""}
Values == SeqsUpTo(ValueChars, MaxValLen)

\* mappings of one or two keys
RoundTripEnvs ==
    {<< <<T("A"), v>> >> : v \in Values}
    \cup {<< <<T("A"), v>>, <<T("B"), T("b")>> >> : v \in Values}

NotRead ==
    [written |-> FALSE, by |-> {}, build |-> <<>>, run |-> <<>>, push |-> <<>>,
     config |-> <<>>]

InitFile ==
    /\ pc = "file"
    /\ MainIdle
    /\ ArchIdle
    /\ RaceIdle
    /\ VolIdle
    /\ rt_env \in RoundTripEnvs
    /\ rt_text = <<>>
    /\ rt_read = NotRead

FileOthersUnchanged ==
    UNCHANGED <<main_vars, tok, src_tok, arch_out, shared_file, writer, finished,
                vol_cfg, vol_out>>

\* generate_config.py write_env_config
FileWrite ==
    /\ pc = "file"
    /\ ~rt_read.written
    /\ rt_text' = write_env_text(rt_env)
    /\ rt_read' = [rt_read EXCEPT !.written = TRUE]
    /\ UNCHANGED rt_env
    /\ FileOthersUnchanged

FileRead(name, value) ==
    /\ pc = "file"
    /\ rt_read.written
    /\ name \notin rt_read.by
    /\ rt_read' = [rt_read EXCEPT !.by = @ \cup {name}, ![name] = value]
    /\ UNCHANGED <<rt_env, rt_text>>
    /\ FileOthersUnchanged

BuildParse == FileRead("build", build_parse_env_file(rt_text))

RunParse == FileRead("run", run_parse_env_file(rt_text))

\* push.py 74-75, in a process whose environment is empty
PushLoad == FileRead("push", push_load_env_file(<<>>, rt_text))

ConfigLoad == FileRead("config", config_load_env_file(rt_text))

NextFile == FileWrite \/ BuildParse \/ RunParse \/ PushLoad \/ ConfigLoad

SpecFile == InitFile /\ [][NextFile]_vars

\* C13: for every mapping whose values hold no newline, the mapping each
\* env-file parser reads back from the file write_env_config wrote equals
\* the mapping written.
C13_RoundTrip ==
    \A name \in rt_read.by : rt_read[name] = rt_env

(***************************************************************************)
(* SpecRace: two invocations writing config/.env at the same time          *)
(*                                                                         *)
(* write_env_config opens the file with mode "w", which truncates it, and  *)
(* writes through a buffered file object of its own: the buffer reaches    *)
(* the file at the position of that writer when it is full and when the    *)
(* file is closed.  Nothing locks the file and nothing renames into place. *)
(***************************************************************************)
\* number of characters the buffer of a file object holds
BufferSize == 6

\* the filler of a hole left by a write past the end of the file
NUL == "NUL"

\* the environments the two invocations resolved
RaceEnvs ==
    {<< <<T("T"), <<"a", "b">> >> >>,
     << <<T("T"), <<"c">> >> >>,
     << <<T("T"), <<"c">> >>, <<T("B"), <<"d">> >> >>}

\* a writer before open(filename, "w")
Ready(e) == [env |-> e, at |-> "start", next |-> 1, buf |-> <<>>, offset |-> 0]

\* write(2) of data at position off of the file
pwrite(file, off, data) ==
    LET end == IF Len(file) > off + Len(data) THEN Len(file) ELSE off + Len(data) IN
    [i \in 1..end |->
        IF i > off /\ i <= off + Len(data) THEN data[i - off]
        ELSE IF i <= Len(file) THEN file[i]
        ELSE NUL]

InitRace ==
    /\ pc = "race"
    /\ MainIdle
    /\ ArchIdle
    /\ FileIdle
    /\ VolIdle
    /\ shared_file \in {<<>>, write_env_text(<< <<T("T"), <<"o", "l", "d">> >> >>)}
    /\ writer \in {<<Ready(a), Ready(b)>> : a \in RaceEnvs, b \in RaceEnvs}
    /\ finished = <<>>

RaceOthersUnchanged ==
    UNCHANGED <<main_vars, tok, src_tok, arch_out, rt_env, rt_text, rt_read,
                vol_cfg, vol_out>>

\* generate_config.py line 167: open(filename, "w") truncates the file
Open(w) ==
    /\ pc = "race"
    /\ writer[w].at = "start"
    /\ shared_file' = <<>>
    /\ writer' = [writer EXCEPT ![w].at = "open"]
    /\ UNCHANGED finished
    /\ RaceOthersUnchanged

\* generate_config.py lines 168-169: f.write of the next item; a buffer the
\* line does not fit in is written to the file first
WriteItem(w) ==
    /\ pc = "race"
    /\ writer[w].at = "open"
    /\ writer[w].next <= Len(writer[w].env)
    /\ LET me   == writer[w]
           line == write_env_text(<<me.env[me.next]>>) IN
       IF Len(me.buf) + Len(line) > BufferSize THEN
            /\ shared_file' = pwrite(shared_file, me.offset, me.buf)
            /\ writer' = [writer EXCEPT ![w].next = @ + 1, ![w].buf = line,
                                        ![w].offset = @ + Len(me.buf)]
       ELSE /\ writer' = [writer EXCEPT ![w].next = @ + 1, ![w].buf = me.buf \o line]
            /\ UNCHANGED shared_file
    /\ UNCHANGED finished
    /\ RaceOthersUnchanged

\* generate_config.py line 167: leaving the with block closes the file,
\* which writes the buffer
Close(w) ==
    /\ pc = "race"
    /\ writer[w].at = "open"
    /\ writer[w].next > Len(writer[w].env)
    /\ shared_file' = pwrite(shared_file, writer[w].offset, writer[w].buf)
    /\ writer' = [writer EXCEPT ![w].at = "closed", ![w].buf = <<>>,
                                ![w].offset = @ + Len(writer[w].buf)]
    /\ finished' = Append(finished, w)
    /\ RaceOthersUnchanged

NextRace == \E w \in {1, 2} : Open(w) \/ WriteItem(w) \/ Close(w)

SpecRace == InitRace /\ [][NextRace]_vars

\* C16: once both concurrent writers have closed the file, its content is
\* exactly the complete output of the writer that closed last.
C16_LastWriterWins ==
    Len(finished) = 2 => shared_file = write_env_text(writer[finished[2]].env)

\* what an invocation on the inputs of this one leaves: the result of
\* generate_config and the persisted file, given the file as it was found.
\* It reads the config, the target, the filesystem and the host only.
Outcome(found) ==
    LET r == generate_config(config, Target, fs, machine) IN
    [result |-> r,
     file |-> IF r.ret = "env" THEN write_env_config(r.env) ELSE found]

HoldsRequiredKeys ==
    \A c \in {"build", "run", "push"} : FirstMissing(NeededKeys(c), env_vars.env) = 0

\* the invocation ended in a missing-required-key failure
MissingKeyFailure ==
    \/ message.says \in MissingKeyDiagnostics
    \/ uncaught = "KeyError"

PushCommands ==
    LET image == DictGet(env, "DOCKER_IMAGE") \o <<":">> \o DictGet(env, "DOCKER_IMAGE_TAG")
        name  == <<"ghcr.io/">> \o text_lower(DictGet(env, "DOCKER_IMAGE")) \o <<":">>
                 \o DictGet(env, "DOCKER_IMAGE_TAG") IN
    << <<T("docker"), T("tag"), image, name>>,
       <<T("docker"), T("push"), name>>,
       <<T("docker"), T("rmi"), name>> >>

PushPosition(p) == IF p = "tag" THEN 1 ELSE IF p = "push" THEN 2 ELSE 3

PushAfter(p) == IF p = "tag" THEN "push" ELSE IF p = "push" THEN "rmi" ELSE "done"

\* one step of push at its docker commands: the command issued is the next
\* of tag, push, rmi on the registry name; when it succeeds push goes on to
\* the following one (and ends with status 0 after rmi), when it fails push
\* ends with the exit code of that command
PushOrderStep ==
    (cmd = "push" /\ pc \in {"tag", "push", "rmi"}) =>
        /\ Len(docker) = PushPosition(pc) - 1
        /\ docker' = Append(docker, PushCommands[PushPosition(pc)])
        /\ LET issued == docker'[Len(docker')]
               name   == issued[Len(issued)] IN
           /\ name[1] = "ghcr.io/"
           /\ \A i \in 1..Len(name) : name[i] # "Vince-94"
        /\ \/ /\ pc' = PushAfter(pc)
              /\ status' = IF pc = "rmi" THEN Exit(0) ELSE StillRunning
           \/ /\ pc' = "done"
              /\ status' \in {Exit(rc) : rc \in DockerCodes \ {0}}
              /\ message'.says = "Command failed"

SelectedOption ==
    IF cmd = "build"
    THEN build_choose_platform_option(DictGet(env, "TARGET_ARCH"), DictGet(env, "SOURCE_ARCH"))
    ELSE run_choose_platform_option(DictGet(env, "TARGET_ARCH"), DictGet(env, "SOURCE_ARCH"))

\* build or run has read config/.env and reached its platform selection
Selecting ==
    /\ cmd \in {"build", "run"}
    /\ Rank(pc) >= 3
    /\ env_vars.ret = "env"
    /\ DictHas(env, "TARGET_ARCH")
    /\ DictHas(env, "SOURCE_ARCH")

MaxMounts == 2

\* directories declared as extra volumes
MountPaths == {"/data", "/mnt/data", "/srv/data", "/mnt/my data", "/srv/robot_ws"}

MountLists == SeqsUpTo(MountPaths, MaxMounts)

\* a filesystem where every declared path and dockerfile exists
MountFiles == [project_dir |-> TRUE, dirs |-> MountPaths, dockerfiles |-> AllDockerfiles]

NoHandOff == [at |-> "config", env |-> <<>>, file |-> NoFile, read |-> <<>>,
              volumes |-> <<>>, mounts |-> <<>>]

InitVol ==
    /\ pc = "vol"
    /\ MainIdle
    /\ ArchIdle
    /\ FileIdle
    /\ RaceIdle
    /\ vol_cfg \in {Config(TRUE, vl, "humble", "ros2",
                           [images |-> PlainBaseImages, names |-> PlainNames],
                           DeclaredArchs, {"ros2", "micro-ros"}, {"humble", "jazzy"}) :
                        vl \in MountLists}
    /\ vol_out = NoHandOff

VolOthersUnchanged ==
    UNCHANGED <<main_vars, tok, src_tok, arch_out, rt_env, rt_text, rt_read,
                shared_file, writer, finished, vol_cfg>>

\* run.py run_generate_config 40-41: generate_config on the loaded config
VolResolve ==
    /\ pc = "vol"
    /\ vol_out.at = "config"
    /\ LET r == generate_config(vol_cfg, s_x86_64, MountFiles, s_x86_64) IN
       vol_out' = [vol_out EXCEPT !.at = "resolved", !.env = r.env]
    /\ VolOthersUnchanged

\* run.py run_generate_config 46-47: write_env_config
VolWrite ==
    /\ pc = "vol"
    /\ vol_out.at = "resolved"
    /\ vol_out' = [vol_out EXCEPT !.at = "written", !.file = write_env_config(vol_out.env)]
    /\ VolOthersUnchanged

\* run.py 150-152: parse_env_file
VolRead ==
    /\ pc = "vol"
    /\ vol_out.at = "written"
    /\ vol_out' = [vol_out EXCEPT !.at = "read", !.read = parse_env_file(vol_out.file)]
    /\ VolOthersUnchanged

\* run.py 202-214: the -v entries of docker run
VolMount ==
    /\ pc = "vol"
    /\ vol_out.at = "read"
    /\ vol_out' = [vol_out EXCEPT
            !.at = "mounted",
            !.volumes = IF DictGet(vol_out.read, "VOLUMES") # <<"(", ")">>
                        THEN parse_bash_array(DictGet(vol_out.read, "VOLUMES"))
                        ELSE <<>>,
            !.mounts = docker_volumes(vol_out.read)]
    /\ VolOthersUnchanged

NextVol == VolResolve \/ VolWrite \/ VolRead \/ VolMount

SpecVol == InitVol /\ [][NextVol]_vars

\* the container-side target of a -v entry "-v<source>:<target>:rw"
MountTarget(entry) ==
    SubSeq(entry, IndexOf(entry, ":") + 1, Len(entry) - 1)

\* C24: the volumes run.py parses from the persisted VOLUMES value are the
\* config's volume list in the same order, and when the declared volume
\* paths are distinct no two -v entries of the docker run command, the
\* workspace mount included, have the same container-side target.
C24_VolumesSurviveDistinctTargets ==
    vol_out.at = "mounted" =>
        /\ vol_out.volumes = vol_cfg.volumes
        /\ Len(vol_out.mounts) = Len(vol_cfg.volumes) + 1
        /\ (\A i, j \in 1..Len(vol_cfg.volumes) :
                i # j => vol_cfg.volumes[i] # vol_cfg.volumes[j]) =>
            \A i, j \in 1..Len(vol_out.mounts) :
                i # j => MountTarget(vol_out.mounts[i]) # MountTarget(vol_out.mounts[j])

\* C25: build.parse_env_file, run.parse_env_file, push.load_env_file and
\* config.load_env_file yield the same keys with the same values from the
\* same file content.
C25_ReadersEquivalent ==
    \A a, b \in rt_read.by : rt_read[a] = rt_read[b]

====
